---------------------------- MODULE Spec2Model ----------------------------
(***************************************************************************)
(* A model of pv_calculator.py: the load computation and section-selection *)
(* pipeline of the PV mounting tool, and its interactive input acquisition.*)
(*                                                                         *)
(* Numbers.  The program computes in Python floats.  The model computes in *)
(* integers on fixed grids, and states every comparison of the code as the *)
(* exact comparison of the underlying rationals:                           *)
(*   tilt_angle                       half degrees   (30.0 deg  -> 60)     *)
(*   pv_length, pv_width,                                                  *)
(*   column_spacing, span_length      0.1 m          (2.5 m     -> 25)     *)
(*   mounting_height                  1 m                                  *)
(*   pv_weight                        1 kg                                 *)
(*   wind_load, snow_load, dead_load  0.01 kN (fixed point, rounded down)  *)
(*   combo1..3, design_load           0.0001 kN (exact from the loads)     *)
(*   section areas and dimensions     0.01 of the catalog's unit           *)
(*   weights                          1/1250000 kg (exact)                 *)
(* Strings.  The Chinese keys of the tables are written in ASCII:          *)
(*   cities  Beijing Shanghai Guangzhou Harbin Urumqi Lhasa, "default"     *)
(*   roofs   "single" (dan po)  "double" (shuang po)  "flat" (ping ding)   *)
(*   square tubes  "SHS60x60x2.5" for the source's box-prefixed names      *)
(* Values.  A value of a numeric field is a tagged record: "num" (v is the *)
(* number), "nan" (float('nan')), "text" (a str where a number is meant)   *)
(* or "missing" (the key is absent).  A value of a string field is "str",  *)
(* "missing" or "unhashable" (a list where a key is meant).                *)
(***************************************************************************)
EXTENDS Integers, Sequences, FiniteSets, TLC

VARIABLES
    pc,                 \* position in main() / get_user_input()
    params,             \* the ParameterRecord (dict returned by get_user_input)
    wind_load, snow_load, dead_load,
    design_load, combo1, combo2, combo3,
    column_section,
    total_steel, column_weight, beam_weight, connection_weight,
    steel_sections,     \* the module-level dict STEEL_SECTIONS
    field,              \* index of the numeric field get_user_input is asking for
    attempts            \* get_valid_input's local counter

vars == << pc, params, wind_load, snow_load, dead_load, design_load, combo1,
           combo2, combo3, column_section, total_steel, column_weight,
           beam_weight, connection_weight, steel_sections, field, attempts >>

---------------------------------------------------------------------------
(* Tagged values *)

Num(x) == [k |-> "num", v |-> x]

NaN == [k |-> "nan", v |-> 0]

Text == [k |-> "text", v |-> 0]

Missing == [k |-> "missing", v |-> 0]

Str(s) == [k |-> "str", v |-> s]

MissingStr == [k |-> "missing", v |-> ""]

Unhashable == [k |-> "unhashable", v |-> ""]

IsNum(x) == x.k = "num"

IsNaN(x) == x.k = "nan"

\* Accessing or computing with the value raises (KeyError / TypeError)
Breaks(x) == x.k \in {"text", "missing", "unhashable"}

Abs(x) == IF x < 0 THEN -x ELSE x

\* math.ceil(a / b) for a >= 0, b > 0
CeilDiv(a, b) == (a + b - 1) \div b

\* Python's a > b on floats: False when either side is NaN
Gt(a, b) == IsNum(a) /\ IsNum(b) /\ a.v > b.v

\* max(a, b, c): keeps the running maximum, replaced only by a greater item
PyMax3(a, b, c) ==
    LET m1 == IF Gt(b, a) THEN b ELSE a
    IN  IF Gt(c, m1) THEN c ELSE m1

\* what a try-block yields: a value, or an exception on its way out
Ok(x) == [raised |-> FALSE, val |-> x]

Raise == [raised |-> TRUE, val |-> Num(0)]

---------------------------------------------------------------------------
(* Reference data, lines 10-47 *)

STEEL_DENSITY == 7850

STEEL_YIELD_STRENGTH == 235

\* SAFETY_FACTOR = 1.5, in tenths
SAFETY_FACTOR_X10 == 15

\* wind shape coefficients, in tenths
WIND_SHAPE_COEFF == [single |-> 13, double |-> 9, flat |-> 10]

\* basic wind / snow pressure, in 0.01 kN/m2
CITY_LOAD_DATA ==
    [ Beijing   |-> [wind |-> 45, snow |-> 40],
      Shanghai  |-> [wind |-> 55, snow |-> 20],
      Guangzhou |-> [wind |-> 50, snow |-> 0],
      Harbin    |-> [wind |-> 55, snow |-> 45],
      Urumqi    |-> [wind |-> 60, snow |-> 80],
      Lhasa     |-> [wind |-> 30, snow |-> 15],
      default   |-> [wind |-> 40, snow |-> 35] ]

\* The dict in insertion order (the order .items() and .keys() iterate in).
\* props holds the list of the entry, every number in hundredths: six numbers
\* for a C section (area at Python index 4), four for a square tube (area at
\* Python index 2).
STEEL_SECTIONS ==
    << [name |-> "C80x40x15x2.0",  props |-> <<8000, 4000, 1500, 200, 424, 4392>>],
       [name |-> "C100x50x20x2.5", props |-> <<10000, 5000, 2000, 250, 678, 11212>>],
       [name |-> "C120x50x20x2.5", props |-> <<12000, 5000, 2000, 250, 718, 19860>>],
       [name |-> "C140x50x20x3.0", props |-> <<14000, 5000, 2000, 300, 864, 32255>>],
       [name |-> "SHS60x60x2.5",   props |-> <<6000, 250, 567, 3445>>],
       [name |-> "SHS80x80x3.0",   props |-> <<8000, 300, 876, 7349>>],
       [name |-> "SHS100x100x3.5", props |-> <<10000, 350, 1320, 17808>>],
       [name |-> "SHS120x120x4.0", props |-> <<12000, 400, 1818, 34636>>] >>

\* the identifier select_column_section returns from its except clause
DEFAULT_SECTION == "SHS100x100x3.5"

\* 10000 * cos(t / 2 degrees), t = 0 .. 180, rounded
COS_TABLE ==
    << 10000, 10000, 9998, 9997, 9994, 9990, 9986, 9981, 9976, 9969, 9962, 9954,
       9945, 9936, 9925, 9914, 9903, 9890, 9877, 9863, 9848, 9833, 9816, 9799,
       9781, 9763, 9744, 9724, 9703, 9681, 9659, 9636, 9613, 9588, 9563, 9537,
       9511, 9483, 9455, 9426, 9397, 9367, 9336, 9304, 9272, 9239, 9205, 9171,
       9135, 9100, 9063, 9026, 8988, 8949, 8910, 8870, 8829, 8788, 8746, 8704,
       8660, 8616, 8572, 8526, 8480, 8434, 8387, 8339, 8290, 8241, 8192, 8141,
       8090, 8039, 7986, 7934, 7880, 7826, 7771, 7716, 7660, 7604, 7547, 7490,
       7431, 7373, 7314, 7254, 7193, 7133, 7071, 7009, 6947, 6884, 6820, 6756,
       6691, 6626, 6561, 6494, 6428, 6361, 6293, 6225, 6157, 6088, 6018, 5948,
       5878, 5807, 5736, 5664, 5592, 5519, 5446, 5373, 5299, 5225, 5150, 5075,
       5000, 4924, 4848, 4772, 4695, 4617, 4540, 4462, 4384, 4305, 4226, 4147,
       4067, 3987, 3907, 3827, 3746, 3665, 3584, 3502, 3420, 3338, 3256, 3173,
       3090, 3007, 2924, 2840, 2756, 2672, 2588, 2504, 2419, 2334, 2250, 2164,
       2079, 1994, 1908, 1822, 1736, 1650, 1564, 1478, 1392, 1305, 1219, 1132,
       1045, 958, 872, 785, 698, 610, 523, 436, 349, 262, 175, 87,
       0 >>

\* math.cos(math.radians(tilt)) * 10000, tilt in half degrees
Cos(t) == COS_TABLE[t + 1]

\* math.sin(math.radians(tilt)) * 10000
Sin(t) == COS_TABLE[180 - t + 1]

\* CITY_LOAD_DATA.get(location, CITY_LOAD_DATA[default])
CityData(loc) ==
    IF loc \in DOMAIN CITY_LOAD_DATA THEN CITY_LOAD_DATA[loc]
    ELSE CITY_LOAD_DATA["default"]

\* WIND_SHAPE_COEFF.get(roof_type, 1.0)
ShapeCoeff(roof) ==
    IF roof \in DOMAIN WIND_SHAPE_COEFF THEN WIND_SHAPE_COEFF[roof] ELSE 10

---------------------------------------------------------------------------
(* LoadCalculator, lines 226-304 *)

\* the wind pressure height coefficient, in hundredths; height in metres.
\* Every comparison with NaN is False, which leaves the last branch.
HeightCoeff(height) ==
    IF IsNum(height) /\ height.v <= 5 THEN 100
    ELSE IF IsNum(height) /\ height.v <= 10 THEN 100
    ELSE IF IsNum(height) /\ height.v <= 15 THEN 114
    ELSE 125

\* the try block of calculate_wind_load
wind_load_body(p) ==
    IF \/ Breaks(p.location) \/ Breaks(p.mounting_height) \/ Breaks(p.roof_type)
       \/ Breaks(p.tilt_angle) \/ Breaks(p.pv_length) \/ Breaks(p.pv_width)
       \/ Breaks(p.pv_per_row) \/ Breaks(p.num_rows)
    THEN Raise
    ELSE IF \/ IsNaN(p.tilt_angle) \/ IsNaN(p.pv_length) \/ IsNaN(p.pv_width)
            \/ IsNaN(p.pv_per_row) \/ IsNaN(p.num_rows)
    THEN Ok(NaN)
    ELSE LET W0   == CityData(p.location.v).wind
             muz  == HeightCoeff(p.mounting_height)
             mus  == ShapeCoeff(p.roof_type.v)
             \* projected area of one panel, 0.01 m2
             projected_area ==
                 (Sin(p.tilt_angle.v) * p.pv_length.v * p.pv_width.v) \div 10000
             \* mus * muz * W0, 0.001 kN/m2
             pressure == (mus * muz * W0) \div 100
             w == (pressure * projected_area * p.pv_per_row.v * p.num_rows.v)
                     \div 1000
         IN  Ok(Num(Abs(w)))

calculate_wind_load(p) ==
    LET r == wind_load_body(p)
    IN  IF r.raised THEN Ok(Num(0)) ELSE r

\* SnowCoeff with the decay taken over 50 degrees: 1.0 - (tilt - 25) / 50
SnowCoeff_slow_decay(tilt) ==
    IF IsNum(tilt) /\ tilt.v <= 50 THEN 50
    ELSE IF IsNum(tilt) /\ tilt.v <= 100 THEN 50 - ((tilt.v - 50) \div 2)
    ELSE 0

\* the snow distribution coefficient times 50; tilt in half degrees.
\* Python: 1.0 if tilt <= 25, 1.0 - (tilt - 25) / 25 if tilt <= 50, else 0
SnowCoeff(tilt) ==
    IF IsNum(tilt) /\ tilt.v <= 50 THEN 50
    ELSE IF IsNum(tilt) /\ tilt.v <= 100 THEN 50 - (tilt.v - 50)
    ELSE 0

\* the try block of calculate_snow_load
snow_load_body(p) ==
    IF \/ Breaks(p.location) \/ Breaks(p.tilt_angle) \/ Breaks(p.pv_length)
       \/ Breaks(p.pv_width) \/ Breaks(p.pv_per_row) \/ Breaks(p.num_rows)
    THEN Raise
    ELSE IF \/ IsNaN(p.tilt_angle) \/ IsNaN(p.pv_length) \/ IsNaN(p.pv_width)
            \/ IsNaN(p.pv_per_row) \/ IsNaN(p.num_rows)
    THEN Ok(NaN)
    ELSE LET S0  == CityData(p.location.v).snow
             mur == SnowCoeff(p.tilt_angle)
             \* area of one panel, 0.01 m2
             area == (p.pv_length.v * p.pv_width.v * Cos(p.tilt_angle.v))
                        \div 10000
         IN  Ok(Num((mur * S0 * area * p.pv_per_row.v * p.num_rows.v) \div 5000))

calculate_snow_load(p) ==
    LET r == snow_load_body(p)
    IN  IF r.raised THEN Ok(Num(0)) ELSE r

\* the try block of calculate_dead_load
dead_load_body(p) ==
    IF Breaks(p.pv_weight) \/ Breaks(p.pv_per_row) \/ Breaks(p.num_rows)
    THEN Raise
    ELSE IF IsNaN(p.pv_weight) \/ IsNaN(p.pv_per_row) \/ IsNaN(p.num_rows)
    THEN Ok(NaN)
    ELSE LET pv_total_weight == p.pv_weight.v * p.pv_per_row.v * p.num_rows.v
             \* 0.3 * pv_total_weight, in 0.1 kg
             support_weight == pv_total_weight * 3
             \* (pv_total_weight + support_weight) * 0.0098, in 0.00001 kN
             dead == (pv_total_weight * 10 + support_weight) * 98
         IN  Ok(Num(dead \div 1000))

\* calculate_dead_load without its try / except
calculate_dead_load_uncaught(p) == dead_load_body(p)

calculate_dead_load(p) ==
    LET r == dead_load_body(p)
    IN  IF r.raised THEN Ok(Num(0)) ELSE r

---------------------------------------------------------------------------
(* LoadCombiner, lines 306-325 *)

\* a * x + b * y on floats: NaN as soon as one side is
Lin(a, x, b, y) ==
    IF IsNaN(x) \/ IsNaN(y) THEN NaN ELSE Num(a * x.v + b * y.v)

\* combined_load_body with combo3 = 1.2 * dead + 0.9 * 1.4 * wind + snow
combined_load_body_no_parens(dead, wind, snow) ==
    IF Breaks(dead) \/ Breaks(wind) \/ Breaks(snow)
    THEN Raise
    ELSE LET c1 == Lin(120, dead, 140, wind)
             c2 == Lin(120, dead, 140, snow)
             dw == Lin(120, dead, 126, wind)
             c3 == Lin(1, dw, 100, snow)
         IN  Ok(<< PyMax3(c1, c2, c3), c1, c2, c3 >>)

\* the try block of calculate_combined_load; the loads in 0.01 kN, the
\* results in 0.0001 kN
combined_load_body(dead, wind, snow) ==
    IF Breaks(dead) \/ Breaks(wind) \/ Breaks(snow)
    THEN Raise
    ELSE LET c1 == Lin(120, dead, 140, wind)
             c2 == Lin(120, dead, 140, snow)
             \* 0.9 * 1.4 = 1.26
             ws == Lin(1, wind, 1, snow)
             c3 == Lin(120, dead, 126, ws)
         IN  Ok(<< PyMax3(c1, c2, c3), c1, c2, c3 >>)

calculate_combined_load(dead, wind, snow) ==
    LET r == combined_load_body(dead, wind, snow)
    IN  IF r.raised THEN Ok(<< Num(0), Num(0), Num(0), Num(0) >>) ELSE r

---------------------------------------------------------------------------
(* SectionSelector, lines 327-367 *)

\* props[4] of a catalog entry: an IndexError on a list of four
HasIndex4(entry) == Len(entry.props) >= 5

Index4(entry) == entry.props[5]

\* section_area >= required_area_cm2, where
\*   required_area_cm2 = design_load / total_columns * 1000
\*                       / (STEEL_YIELD_STRENGTH / SAFETY_FACTOR) / 100
\* with the area in 0.01 cm2 and the design load in 0.0001 kN:
\*   area / 100 >= load * 1000 * 15 / (10000 * columns * 235 * 10 * 100)
Adequate(area, load, columns) ==
    /\ IsNum(load) /\ IsNum(columns)
    /\ area * columns.v * STEEL_YIELD_STRENGTH * 100 >= SAFETY_FACTOR_X10 * load.v

\* the for loop of lines 353-357 from entry i on: the first adequate section,
\* "" (None) when the loop runs out, an exception at an entry without index 4
RECURSIVE ScanSections(_, _, _, _)
ScanSections(cat, i, load, columns) ==
    IF i > Len(cat) THEN Ok("")
    ELSE IF ~HasIndex4(cat[i]) THEN Raise
    ELSE IF Adequate(Index4(cat[i]), load, columns) THEN Ok(cat[i].name)
    ELSE ScanSections(cat, i + 1, load, columns)

\* max(STEEL_SECTIONS.keys(), key=lambda k: STEEL_SECTIONS[k][4]): the first
\* key of the greatest props[4], which is computed for every key
MaxAreaSection(cat) ==
    IF \E i \in 1..Len(cat) : ~HasIndex4(cat[i]) THEN Raise
    ELSE LET best == CHOOSE i \in 1..Len(cat) :
                        /\ \A j \in 1..Len(cat) : Index4(cat[j]) <= Index4(cat[i])
                        /\ \A j \in 1..(i - 1) : Index4(cat[j]) < Index4(cat[i])
         IN  Ok(cat[best].name)

\* math.ceil(span_length / column_spacing) raises on a zero spacing
\* (ZeroDivisionError), on NaN (ValueError), on a str or a missing key
ColumnsPerRowRaises(p) ==
    \/ Breaks(p.span_length) \/ Breaks(p.column_spacing)
    \/ IsNaN(p.span_length) \/ IsNaN(p.column_spacing)
    \/ p.column_spacing.v = 0

ColumnsPerRow(p) == CeilDiv(p.span_length.v, p.column_spacing.v)

\* columns_per_row * params["num_rows"]
TotalColumns(p) ==
    IF IsNaN(p.num_rows) THEN NaN ELSE Num(ColumnsPerRow(p) * p.num_rows.v)

\* the try block of select_column_section
select_section_body(load, p) ==
    IF ColumnsPerRowRaises(p) \/ Breaks(p.num_rows) \/ Breaks(load)
    THEN Raise
    ELSE LET t0 == TotalColumns(p)
             total_columns == IF IsNum(t0) /\ t0.v = 0 THEN Num(1) ELSE t0
             found == ScanSections(steel_sections, 1, load, total_columns)
         IN  IF found.raised THEN Raise
             ELSE IF found.val # "" THEN found
             ELSE MaxAreaSection(steel_sections)

select_column_section(load, p) ==
    LET r == select_section_body(load, p)
    IN  IF r.raised THEN Ok(DEFAULT_SECTION) ELSE r

---------------------------------------------------------------------------
(* MaterialEstimator, lines 369-400 *)

\* the entries of the catalog under a key: STEEL_SECTIONS[column_section]
Lookup(cat, section) == { i \in 1..Len(cat) : cat[i].name = section }

\* the try block of calculate_steel_usage; weights in 1/1250000 kg:
\*   (area / 100 / 10000) * (height * 1.2) * 7850 * columns kg
\*     = area * height * columns * (12 * 7850 / 8) / 1250000 kg
steel_usage_body(p, section) ==
    IF \/ ColumnsPerRowRaises(p) \/ Breaks(p.num_rows)
       \/ Lookup(steel_sections, section) = {}
       \/ \E i \in Lookup(steel_sections, section) : ~HasIndex4(steel_sections[i])
       \/ Breaks(p.mounting_height)
    THEN Raise
    ELSE IF IsNaN(p.num_rows) \/ IsNaN(p.mounting_height)
    THEN Ok(<< NaN, NaN, NaN, NaN >>)
    ELSE LET total_columns == ColumnsPerRow(p) * p.num_rows.v
             entry == steel_sections[CHOOSE i \in Lookup(steel_sections, section) : TRUE]
             section_area == Index4(entry)
             cw == section_area * p.mounting_height.v * total_columns
                      * ((12 * STEEL_DENSITY) \div 8)
             \* column_weight * 0.6
             bw == (cw \div 5) * 3
             \* (column_weight + beam_weight) * 0.15
             kw == ((cw + bw) \div 20) * 3
         IN  Ok(<< Num(cw + bw + kw), Num(cw), Num(bw), Num(kw) >>)

calculate_steel_usage(p, section) ==
    LET r == steel_usage_body(p, section)
    IN  IF r.raised THEN Ok(<< Num(0), Num(0), Num(0), Num(0) >>) ELSE r

---------------------------------------------------------------------------
(* display_results, lines 402-432: it computes the panel area (line 412) and *)
(* the number of columns (line 425) again, outside any try block            *)

display_raises(p) ==
    \/ \E f \in {"location", "roof_type", "tilt_angle", "mounting_height",
                 "num_rows", "pv_per_row", "pv_length", "pv_width",
                 "span_length", "column_spacing"} : p[f].k = "missing"
    \/ \E f \in {"pv_length", "pv_width", "pv_per_row", "num_rows"} : p[f].k = "text"
    \/ ColumnsPerRowRaises(p)

---------------------------------------------------------------------------
(* The ParameterRecords the pipeline is run on *)

FieldNames ==
    {"location", "roof_type", "tilt_angle", "mounting_height", "pv_length",
     "pv_width", "pv_weight", "pv_per_row", "num_rows", "column_spacing",
     "span_length"}

StringFields == {"location", "roof_type"}

Record(loc, roof, tilt, height, len, wid, wt, perrow, rows, spacing, span) ==
    [ location |-> Str(loc), roof_type |-> Str(roof), tilt_angle |-> Num(tilt),
      mounting_height |-> Num(height), pv_length |-> Num(len),
      pv_width |-> Num(wid), pv_weight |-> Num(wt), pv_per_row |-> Num(perrow),
      num_rows |-> Num(rows), column_spacing |-> Num(spacing),
      span_length |-> Num(span) ]

\* the greatest number of rows of the records
MaxRows == 2

\* the greatest number of fields of a record that are missing or malformed
MaxFaults == 2

\* records within the domain get_user_input checks: every height band, tilts
\* in every snow band, one and two columns per row
ValidRecords ==
    { Record(loc, roof, tilt, height, 17, 10, wt, perrow, rows, spacing, span) :
        loc \in {"default", "Urumqi", "Guangzhou"}, roof \in {"flat", "single"},
        tilt \in {0, 60, 120, 180}, height \in {3, 12, 16}, wt \in {20, 50},
        perrow \in {10, 100}, rows \in 1..MaxRows, spacing \in {25, 100},
        span \in {10, 40} }

\* what a missing or malformed field may hold
BadValues(f) ==
    IF f = "location" THEN {MissingStr, Unhashable, Str("Atlantis")}
    ELSE IF f = "roof_type" THEN {MissingStr, Unhashable, Str("dome")}
    ELSE IF f = "column_spacing" THEN {Missing, Text, NaN, Num(0)}
    ELSE {Missing, Text, NaN}

FaultBases ==
    { Record("default", "flat", 60, 3, 17, 10, 20, 10, 2, 25, 40),
      Record("Urumqi", "single", 180, 12, 17, 10, 50, 100, 1, 100, 10) }

\* the records that differ from a base in at most n fields
RECURSIVE Injected(_)
Injected(n) ==
    IF n = 0 THEN FaultBases
    ELSE LET S == Injected(n - 1)
         IN  S \cup UNION { UNION { { [r EXCEPT ![f] = b] : b \in BadValues(f) }
                                    : f \in FieldNames } : r \in S }

FaultyRecords == Injected(MaxFaults)

Records == ValidRecords \cup FaultyRecords

IsValidRecord(p) ==
    /\ \A f \in FieldNames \ StringFields : IsNum(p[f])
    /\ \A f \in StringFields : p[f].k = "str"
    /\ p.location.v \in DOMAIN CITY_LOAD_DATA
    /\ p.roof_type.v \in DOMAIN WIND_SHAPE_COEFF
    /\ p.tilt_angle.v \in 0..180
    /\ \A f \in {"mounting_height", "pv_length", "pv_width", "pv_weight",
                 "pv_per_row", "num_rows", "column_spacing", "span_length"} :
           p[f].v > 0

---------------------------------------------------------------------------
(* main(), lines 434-473: one pass of the pipeline *)

Unset == Missing

\* the record before get_user_input has returned
NoRecord ==
    [ f \in FieldNames |-> IF f \in StringFields THEN MissingStr ELSE Missing ]

NoResults ==
    /\ wind_load = Unset /\ snow_load = Unset /\ dead_load = Unset
    /\ design_load = Unset /\ combo1 = Unset /\ combo2 = Unset
    /\ combo3 = Unset /\ column_section = ""
    /\ total_steel = Unset /\ column_weight = Unset /\ beam_weight = Unset
    /\ connection_weight = Unset

ResetResults ==
    /\ wind_load' = Unset /\ snow_load' = Unset /\ dead_load' = Unset
    /\ design_load' = Unset /\ combo1' = Unset /\ combo2' = Unset
    /\ combo3' = Unset /\ column_section' = ""
    /\ total_steel' = Unset /\ column_weight' = Unset /\ beam_weight' = Unset
    /\ connection_weight' = Unset

\* line 442
CalcWind ==
    /\ pc = "wind"
    /\ LET r == calculate_wind_load(params)
       IN  IF r.raised
           THEN pc' = "except" /\ UNCHANGED wind_load
           ELSE pc' = "snow" /\ wind_load' = r.val
    /\ UNCHANGED << params, snow_load, dead_load, design_load, combo1, combo2,
                    combo3, column_section, total_steel, column_weight,
                    beam_weight, connection_weight, steel_sections, field,
                    attempts >>

\* line 443
CalcSnow ==
    /\ pc = "snow"
    /\ LET r == calculate_snow_load(params)
       IN  IF r.raised
           THEN pc' = "except" /\ UNCHANGED snow_load
           ELSE pc' = "dead" /\ snow_load' = r.val
    /\ UNCHANGED << params, wind_load, dead_load, design_load, combo1, combo2,
                    combo3, column_section, total_steel, column_weight,
                    beam_weight, connection_weight, steel_sections, field,
                    attempts >>

\* line 444
CalcDead ==
    /\ pc = "dead"
    /\ LET r == calculate_dead_load(params)
       IN  IF r.raised
           THEN pc' = "except" /\ UNCHANGED dead_load
           ELSE pc' = "combine" /\ dead_load' = r.val
    /\ UNCHANGED << params, wind_load, snow_load, design_load, combo1, combo2,
                    combo3, column_section, total_steel, column_weight,
                    beam_weight, connection_weight, steel_sections, field,
                    attempts >>

\* line 447
Combine ==
    /\ pc = "combine"
    /\ LET r == calculate_combined_load(dead_load, wind_load, snow_load)
       IN  IF r.raised
           THEN pc' = "except" /\ UNCHANGED << design_load, combo1, combo2, combo3 >>
           ELSE /\ pc' = "select"
                /\ design_load' = r.val[1] /\ combo1' = r.val[2]
                /\ combo2' = r.val[3] /\ combo3' = r.val[4]
    /\ UNCHANGED << params, wind_load, snow_load, dead_load, column_section,
                    total_steel, column_weight, beam_weight, connection_weight,
                    steel_sections, field, attempts >>

\* line 450
SelectColumn ==
    /\ pc = "select"
    /\ LET r == select_column_section(design_load, params)
       IN  IF r.raised
           THEN pc' = "except" /\ UNCHANGED column_section
           ELSE pc' = "steel" /\ column_section' = r.val
    /\ UNCHANGED << params, wind_load, snow_load, dead_load, design_load,
                    combo1, combo2, combo3, total_steel, column_weight,
                    beam_weight, connection_weight, steel_sections, field,
                    attempts >>

\* line 453
SteelUsage ==
    /\ pc = "steel"
    /\ LET r == calculate_steel_usage(params, column_section)
       IN  IF r.raised
           THEN /\ pc' = "except"
                /\ UNCHANGED << total_steel, column_weight, beam_weight,
                                connection_weight >>
           ELSE /\ pc' = "display"
                /\ total_steel' = r.val[1] /\ column_weight' = r.val[2]
                /\ beam_weight' = r.val[3] /\ connection_weight' = r.val[4]
    /\ UNCHANGED << params, wind_load, snow_load, dead_load, design_load,
                    combo1, combo2, combo3, column_section, steel_sections,
                    field, attempts >>

\* lines 456-458; an exception of display_results reaches line 468
Display ==
    /\ pc = "display"
    /\ pc' = IF display_raises(params) THEN "except" ELSE "restart"
    /\ UNCHANGED << params, wind_load, snow_load, dead_load, design_load,
                    combo1, combo2, combo3, column_section, total_steel,
                    column_weight, beam_weight, connection_weight,
                    steel_sections, field, attempts >>

\* line 439: get_user_input() hands over the record of this pass
GetInput ==
    /\ pc = "input"
    /\ params' \in Records
    /\ pc' = "wind"
    /\ UNCHANGED << wind_load, snow_load, dead_load, design_load, combo1,
                    combo2, combo3, column_section, total_steel, column_weight,
                    beam_weight, connection_weight, steel_sections, field,
                    attempts >>

\* lines 461-466 and 470-473: "y" starts the next pass; the record and the
\* results of this pass are dead from here on (each is assigned before it
\* is read again)
Restart ==
    /\ pc \in {"restart", "except"}
    /\ params' = NoRecord
    /\ pc' = "input"
    /\ ResetResults
    /\ UNCHANGED << steel_sections, field, attempts >>

\* lines 462-464 and 471-473: any other answer ends the program
Quit ==
    /\ pc \in {"restart", "except"}
    /\ pc' = "exit"
    /\ UNCHANGED << params, wind_load, snow_load, dead_load, design_load,
                    combo1, combo2, combo3, column_section, total_steel,
                    column_weight, beam_weight, connection_weight,
                    steel_sections, field, attempts >>

Init ==
    /\ pc = "input"
    /\ params = NoRecord
    /\ NoResults
    /\ steel_sections = STEEL_SECTIONS
    /\ field = 0
    /\ attempts = 0

Next ==
    \/ GetInput \/ CalcWind \/ CalcSnow \/ CalcDead \/ Combine \/ SelectColumn
    \/ SteelUsage \/ Display \/ Restart \/ Quit

Spec == Init /\ [][Next]_vars

---------------------------------------------------------------------------
(* Single operations on drawn inputs *)

\* the cross-sectional area of a catalog entry as the table documents it
\* (lines 36 and 42): the fifth number of a C section, the third of a tube
CatalogArea(entry) ==
    IF Len(entry.props) = 6 THEN entry.props[5] ELSE entry.props[3]

CatalogAreas == { CatalogArea(STEEL_SECTIONS[i]) : i \in 1..Len(STEEL_SECTIONS) }

\* the greatest number of columns per row of the geometries
MaxColumnsPerRow == 2

\* geometries: span_length and column_spacing with 1 .. MaxColumnsPerRow
\* columns per row, 1 .. MaxRows rows
GeometryRecords ==
    { Record("default", "flat", 60, 3, 17, 10, 20, 10, rows, 25, span) :
        rows \in 1..MaxRows, span \in { 25 * c - 5 : c \in 1..MaxColumnsPerRow } }

\* design loads (0.0001 kN): none, and for every catalog area and number of
\* columns the greatest load the area carries, and the loads next to it
DesignLoads ==
    {0} \cup { (a * t * STEEL_YIELD_STRENGTH * 100) \div SAFETY_FACTOR_X10 + d :
                 a \in CatalogAreas, t \in 1..(MaxColumnsPerRow * MaxRows),
                 d \in {-1, 0, 1} }

InitSelect ==
    /\ pc = "select"
    /\ params \in GeometryRecords
    /\ design_load \in { Num(d) : d \in DesignLoads }
    /\ wind_load = Unset /\ snow_load = Unset /\ dead_load = Unset
    /\ combo1 = Unset /\ combo2 = Unset /\ combo3 = Unset
    /\ column_section = ""
    /\ total_steel = Unset /\ column_weight = Unset /\ beam_weight = Unset
    /\ connection_weight = Unset
    /\ steel_sections = STEEL_SECTIONS
    /\ field = 0
    /\ attempts = 0

SpecSelect == InitSelect /\ [][SelectColumn]_vars

\* the greatest load (0.01 kN) of the combiner's inputs
MaxLoad == 10

InitCombine ==
    /\ pc = "combine"
    /\ params = NoRecord
    /\ dead_load \in { Num(d) : d \in 0..MaxLoad }
    /\ wind_load \in { Num(d) : d \in 0..MaxLoad }
    /\ snow_load \in { Num(d) : d \in 0..MaxLoad }
    /\ design_load = Unset /\ combo1 = Unset /\ combo2 = Unset /\ combo3 = Unset
    /\ column_section = ""
    /\ total_steel = Unset /\ column_weight = Unset /\ beam_weight = Unset
    /\ connection_weight = Unset
    /\ steel_sections = STEEL_SECTIONS
    /\ field = 0
    /\ attempts = 0

SpecCombine == InitCombine /\ [][Combine]_vars

\* every tilt of [0, 90] on the half-degree grid, every city of the table
SnowRecords ==
    { Record(loc, "flat", tilt, 3, 17, 10, 20, 10, 2, 25, 40) :
        loc \in DOMAIN CITY_LOAD_DATA, tilt \in 0..180 }

InitSnow ==
    /\ pc = "snow"
    /\ params \in SnowRecords
    /\ NoResults
    /\ steel_sections = STEEL_SECTIONS
    /\ field = 0
    /\ attempts = 0

SpecSnow == InitSnow /\ [][CalcSnow]_vars

---------------------------------------------------------------------------
(* Properties of the pipeline *)

\* the least c with c * column_spacing >= span_length
CeilOf(span, spacing) ==
    CHOOSE c \in 0..span : c * spacing >= span /\ (c - 1) * spacing < span

\* ceil(span_length / column_spacing) * num_rows of a valid record
ColumnsOf(p) ==
    CeilOf(p.span_length.v, p.column_spacing.v) * p.num_rows.v

\* area (0.01 cm2) >= required_area, where required_area in cm2 is
\* load / columns * 1000 / (235 / 1.5) / 100 = 3 * load / (47 * columns),
\* the load in 0.0001 kN
Carries(area, load, columns) == area * 47 * columns * 100 >= 3 * load

Entries == { steel_sections[i] : i \in 1..Len(steel_sections) }

Selected == { e \in Entries : e.name = column_section }

CarryingEntries ==
    { e \in Entries : Carries(CatalogArea(e), design_load.v, ColumnsOf(params)) }

\* C1: adequacy.  When some catalog section has an area >= required_area,
\* the section select_column_section returns has a catalog area >=
\* required_area.
C1_Adequacy ==
    (pc = "steel" /\ CarryingEntries # {}) =>
        \E e \in Selected : e \in CarryingEntries

\* C2: fallback.  When required_area exceeds the area of every catalog
\* section, select_column_section returns the section of the greatest area
\* (18.18 cm2).
C2_FallbackToLargest ==
    (pc = "steel" /\ CarryingEntries = {}) =>
        \E e \in Selected :
            /\ CatalogArea(e) = 1818
            /\ \A o \in Entries : CatalogArea(o) <= CatalogArea(e)

\* C3: minimality.  When some catalog section is adequate, no adequate
\* catalog section has a strictly smaller area than the returned one.
C3_Minimality ==
    (pc = "steel" /\ CarryingEntries # {}) =>
        \E e \in Selected :
            \A o \in CarryingEntries : CatalogArea(e) <= CatalogArea(o)

\* C4: the catalog, in the order select_column_section scans it, is ordered
\* by ascending cross-sectional area, in every state.
C4_CatalogAscending ==
    \A i \in 1..(Len(steel_sections) - 1) :
        CatalogArea(steel_sections[i + 1]) >= CatalogArea(steel_sections[i])

\* C5: material estimate.  For a valid record and the section the selector
\* returned for it, column_weight = area(m2) * (mounting_height * 1.2) * 7850
\* * total_columns, beam_weight = 0.6 * column_weight, connection_weight =
\* 0.15 * (column_weight + beam_weight) and total_steel is their sum
\* (weights in 1/1250000 kg: 0.00942 kg = 11775 units per 0.01 cm2 * m).
C5_MaterialEstimate ==
    (pc = "display" /\ IsValidRecord(params)) =>
        \E e \in Selected :
            /\ IsNum(column_weight) /\ IsNum(beam_weight)
            /\ IsNum(connection_weight) /\ IsNum(total_steel)
            /\ column_weight.v =
                  CatalogArea(e) * params.mounting_height.v * ColumnsOf(params) * 11775
            \* beam_weight / 3 = column_weight / 5
            /\ beam_weight.v % 3 = 0 /\ column_weight.v % 5 = 0
            /\ beam_weight.v \div 3 = column_weight.v \div 5
            \* connection_weight / 3 = (column_weight + beam_weight) / 20
            /\ connection_weight.v % 3 = 0
            /\ (column_weight.v + beam_weight.v) % 20 = 0
            /\ connection_weight.v \div 3 =
                  (column_weight.v + beam_weight.v) \div 20
            /\ total_steel.v =
                  column_weight.v + beam_weight.v + connection_weight.v

\* C6: governing load.  For non-negative loads the combiner returns combo1 =
\* 1.2 dead + 1.4 wind, combo2 = 1.2 dead + 1.4 snow, combo3 = 1.2 dead +
\* 0.9 * 1.4 * (wind + snow) and design_load = their maximum, which is not
\* below any of them and does not decrease when a load grows.
C6_GoverningLoad ==
    pc = "select" =>
        LET d == dead_load.v
            w == wind_load.v
            s == snow_load.v
            Design(x, y, z) == calculate_combined_load(Num(x), Num(y), Num(z)).val[1]
        IN  /\ combo1 = Num(120 * d + 140 * w)
            /\ combo2 = Num(120 * d + 140 * s)
            /\ combo3 = Num(120 * d + 126 * (w + s))
            /\ design_load \in {combo1, combo2, combo3}
            /\ design_load.v >= combo1.v
            /\ design_load.v >= combo2.v
            /\ design_load.v >= combo3.v
            /\ \A x \in 0..MaxLoad :
                  /\ x >= d => Design(x, w, s).v >= design_load.v
                  /\ x >= w => Design(d, x, s).v >= design_load.v
                  /\ x >= s => Design(d, w, x).v >= design_load.v

\* the wind load governs: combo1 is the design load and exceeds the others
C6_Witness ==
    /\ pc = "select"
    /\ design_load = combo1
    /\ combo1.v > combo3.v
    /\ combo3.v > combo2.v

Malformed(p, fs) == \E f \in fs : p[f].k \in {"missing", "text", "unhashable"}

\* ceil(span_length / column_spacing) cannot be computed
NoColumns(p) ==
    \/ Malformed(p, {"span_length", "column_spacing"})
    \/ p.span_length.k = "nan" \/ p.column_spacing.k = "nan"
    \/ p.column_spacing = Num(0)

ResultComplete ==
    /\ wind_load.k \in {"num", "nan"} /\ snow_load.k \in {"num", "nan"}
    /\ dead_load.k \in {"num", "nan"} /\ design_load.k \in {"num", "nan"}
    /\ combo1.k \in {"num", "nan"} /\ combo2.k \in {"num", "nan"}
    /\ combo3.k \in {"num", "nan"}
    /\ column_section \in { STEEL_SECTIONS[i].name : i \in 1..Len(STEEL_SECTIONS) }
    /\ total_steel.k \in {"num", "nan"} /\ column_weight.k \in {"num", "nan"}
    /\ beam_weight.k \in {"num", "nan"} /\ connection_weight.k \in {"num", "nan"}

\* the positions of main() after the call of line n has returned
After(n) ==
    CASE n = 442 -> {"snow", "dead", "combine", "select", "steel", "display",
                     "restart", "except", "exit"}
      [] n = 443 -> {"dead", "combine", "select", "steel", "display", "restart",
                     "except", "exit"}
      [] n = 444 -> {"combine", "select", "steel", "display", "restart",
                     "except", "exit"}
      [] n = 447 -> {"select", "steel", "display", "restart", "except", "exit"}
      [] n = 450 -> {"steel", "display", "restart", "except", "exit"}
      [] n = 453 -> {"display", "restart", "except", "exit"}

\* C7: fail-soft containment.  For every record, also one with a missing or
\* malformed field or a zero column_spacing, none of the six operations
\* lets a fault out: main's handler is reached only once all six have
\* returned, a faulted load is 0, a faulted selection is the default
\* section, a faulted estimate is all zeros, and the pass ends with a
\* complete result record.
C7_FailSoft ==
    /\ pc \in After(453) => ResultComplete
    /\ (pc \in After(442) /\ Malformed(params, {"location", "mounting_height",
            "roof_type", "tilt_angle", "pv_length", "pv_width", "pv_per_row",
            "num_rows"})) => wind_load = Num(0)
    /\ (pc \in After(443) /\ Malformed(params, {"location", "tilt_angle",
            "pv_length", "pv_width", "pv_per_row", "num_rows"}))
          => snow_load = Num(0)
    /\ (pc \in After(444) /\ Malformed(params, {"pv_weight", "pv_per_row",
            "num_rows"})) => dead_load = Num(0)
    /\ pc \in After(447) => /\ design_load.k \in {"num", "nan"}
                            /\ combo1.k \in {"num", "nan"}
                            /\ combo2.k \in {"num", "nan"}
                            /\ combo3.k \in {"num", "nan"}
    /\ (pc \in After(450) /\ (NoColumns(params) \/ Malformed(params, {"num_rows"})))
          => column_section = DEFAULT_SECTION
    /\ (pc \in After(453) /\ (NoColumns(params)
                              \/ Malformed(params, {"num_rows", "mounting_height"})))
          => /\ total_steel = Num(0) /\ column_weight = Num(0)
             /\ beam_weight = Num(0) /\ connection_weight = Num(0)

\* a record without pv_weight and with a zero column_spacing has been taken
\* through all six operations
C7_Witness ==
    /\ pc = "display"
    /\ params.pv_weight = Missing
    /\ params.column_spacing = Num(0)
    /\ dead_load = Num(0)
    /\ wind_load.v > 0
    /\ column_section = DEFAULT_SECTION
    /\ total_steel = Num(0)

\* C8: snow banding.  The coefficient (times 50, tilt in half degrees) is 1
\* up to 25 degrees, 1 - (tilt - 25) / 25 up to 50 degrees and 0 above; it is
\* 1 at 0 and 25, 0.5 at 37.5, 0 at 50 and 75, stays within [0, 1], never
\* grows with the tilt, is the coefficient the snow load is computed with,
\* and the snow load is 0 from 50 degrees on.
C8_SnowBanding ==
    pc = "dead" =>
        LET t   == params.tilt_angle.v
            mu  == SnowCoeff(params.tilt_angle)
            S0  == CITY_LOAD_DATA[params.location.v].snow
            area == (params.pv_length.v * params.pv_width.v * Cos(t)) \div 10000
            n   == params.pv_per_row.v * params.num_rows.v
        IN  /\ t <= 50 => mu = 50
            /\ (50 < t /\ t <= 100) => 25 * mu = 25 * 50 - 25 * (t - 50)
            /\ t > 100 => mu = 0
            /\ t \in {0, 50} => mu = 50
            /\ t = 75 => mu = 25
            /\ t \in {100, 150} => mu = 0
            /\ 0 <= mu /\ mu <= 50
            /\ \A u \in t..180 : SnowCoeff(Num(u)) <= mu
            /\ IsNum(snow_load)
            /\ 5000 * snow_load.v <= mu * S0 * area * n
            /\ mu * S0 * area * n < 5000 * (snow_load.v + 1)
            /\ t >= 100 => snow_load = Num(0)

\* at 37.5 degrees in Urumqi the coefficient is 0.5 and snow remains
C8_Witness ==
    /\ pc = "dead"
    /\ params.tilt_angle = Num(75)
    /\ params.location = Str("Urumqi")
    /\ SnowCoeff(params.tilt_angle) = 25
    /\ snow_load.v > 0

---------------------------------------------------------------------------
(* Input acquisition, lines 50-223 *)

\* max_attempts=3, the default of get_valid_input's parameter
MAX_ATTEMPTS == 3

\* The nine calls of get_valid_input in get_user_input, in order.  min10 and
\* max10 are min_val and max_val in tenths, default is the default on the
\* field's grid, unit10 is the grid step in tenths (a half degree is 5).
NUMERIC_FIELDS ==
    << [name |-> "tilt_angle",      type |-> "float", min10 |-> 0,  max10 |-> 900,
        default |-> 60,  has_default |-> TRUE, unit10 |-> 5],
       [name |-> "mounting_height", type |-> "float", min10 |-> 1,  max10 |-> 500,
        default |-> 3,   has_default |-> TRUE, unit10 |-> 10],
       [name |-> "pv_length",       type |-> "float", min10 |-> 5,  max10 |-> 30,
        default |-> 17,  has_default |-> TRUE, unit10 |-> 1],
       [name |-> "pv_width",        type |-> "float", min10 |-> 5,  max10 |-> 20,
        default |-> 10,  has_default |-> TRUE, unit10 |-> 1],
       [name |-> "pv_weight",       type |-> "float", min10 |-> 10, max10 |-> 500,
        default |-> 20,  has_default |-> TRUE, unit10 |-> 10],
       [name |-> "pv_per_row",      type |-> "int",   min10 |-> 10, max10 |-> 1000,
        default |-> 10,  has_default |-> TRUE, unit10 |-> 10],
       [name |-> "num_rows",        type |-> "int",   min10 |-> 10, max10 |-> 10000,
        default |-> 20,  has_default |-> TRUE, unit10 |-> 10],
       [name |-> "column_spacing",  type |-> "float", min10 |-> 5,  max10 |-> 100,
        default |-> 25,  has_default |-> TRUE, unit10 |-> 1],
       [name |-> "span_length",     type |-> "float", min10 |-> 10, max10 |-> 500,
        default |-> 100, has_default |-> TRUE, unit10 |-> 1] >>

\* What the user may type at a numeric prompt: nothing, a word, "nan", or a
\* number: the least and the greatest value of the range and the grid points
\* just outside it.
Entry(kind, x) == [k |-> kind, v |-> x]

NumericEntries(fs) ==
    { Entry("empty", 0), Entry("garbage", 0), Entry("nan", 0) } \cup
    { Entry("num", x) : x \in { CeilDiv(fs.min10, fs.unit10) - 1,
                                CeilDiv(fs.min10, fs.unit10),
                                fs.max10 \div fs.unit10,
                                fs.max10 \div fs.unit10 + 1 } }

\* input_type(user_input): float() reads "nan" as NaN, int() rejects it;
\* both raise ValueError on a word
ParseRaises(type, entry) ==
    \/ entry.k = "garbage"
    \/ entry.k = "nan" /\ type = "int"

Parse(type, entry) == IF entry.k = "nan" THEN NaN ELSE Num(entry.v)

\* lines 96-99: value < min_val or value > max_val; False for NaN
OutOfRange(fs, value) ==
    /\ IsNum(value)
    /\ \/ value.v * fs.unit10 < fs.min10
       \/ value.v * fs.unit10 > fs.max10

\* valid_input_step with the loop condition attempts <= max_attempts
valid_input_step_one_more(fs, count, entry) ==
    IF entry.k = "empty" /\ fs.has_default
    THEN [next |-> "return", value |-> Num(fs.default), attempts |-> count]
    ELSE IF \/ entry.k = "empty"
            \/ ParseRaises(fs.type, entry)
            \/ OutOfRange(fs, Parse(fs.type, entry))
    THEN IF count + 1 <= MAX_ATTEMPTS
         THEN [next |-> "again", value |-> Missing, attempts |-> count + 1]
         ELSE IF fs.has_default
         THEN [next |-> "return", value |-> Num(fs.default), attempts |-> count + 1]
         ELSE [next |-> "raise", value |-> Missing, attempts |-> count + 1]
    ELSE [next |-> "return", value |-> Parse(fs.type, entry), attempts |-> count]

\* One pass of the while loop of get_valid_input (lines 66-110) on one entry,
\* with the exit of lines 112-117 when the attempts are used up.  Yields what
\* happens next: "return" (with the value), "again", or "raise".
valid_input_step(fs, count, entry) ==
    IF entry.k = "empty" /\ fs.has_default
    THEN [next |-> "return", value |-> Num(fs.default), attempts |-> count]
    ELSE IF \/ entry.k = "empty"
            \/ ParseRaises(fs.type, entry)
            \/ OutOfRange(fs, Parse(fs.type, entry))
    THEN IF count + 1 < MAX_ATTEMPTS
         THEN [next |-> "again", value |-> Missing, attempts |-> count + 1]
         ELSE IF fs.has_default
         THEN [next |-> "return", value |-> Num(fs.default), attempts |-> count + 1]
         ELSE [next |-> "raise", value |-> Missing, attempts |-> count + 1]
    ELSE [next |-> "return", value |-> Parse(fs.type, entry), attempts |-> count]

\* the greatest number of numeric fields of one record for which the user
\* types an accepted value other than the default
MaxTyped == 2

Typed ==
    Cardinality({ i \in 1..Len(NUMERIC_FIELDS) :
                    /\ params[NUMERIC_FIELDS[i].name] # Missing
                    /\ params[NUMERIC_FIELDS[i].name] # Num(NUMERIC_FIELDS[i].default) })

ResultsUnchanged ==
    UNCHANGED << wind_load, snow_load, dead_load, design_load, combo1, combo2,
                 combo3, column_section, total_steel, column_weight,
                 beam_weight, connection_weight, steel_sections >>

\* lines 126-129
AskLocation ==
    /\ pc = "location"
    /\ \E typed \in {"", "Beijing", "Atlantis"} :
          LET location == IF typed = "" THEN "default" ELSE typed
          IN  params' = [params EXCEPT !.location =
                            IF location \in DOMAIN CITY_LOAD_DATA
                            THEN Str(location) ELSE Str("default")]
    /\ pc' = "roof_type"
    /\ UNCHANGED << field, attempts >>
    /\ ResultsUnchanged

\* lines 132-136: one pass of the while True loop
AskRoofType ==
    /\ pc = "roof_type"
    /\ \E typed \in {"", "single", "dome", "tent"} :
          LET roof_type == IF typed = "" THEN "flat" ELSE typed
          IN  /\ params' = [params EXCEPT !.roof_type = Str(roof_type)]
              /\ IF roof_type \in DOMAIN WIND_SHAPE_COEFF
                 THEN pc' = "call" /\ field' = 1
                 ELSE pc' = "roof_type" /\ field' = field
    /\ UNCHANGED attempts
    /\ ResultsUnchanged

\* where get_user_input goes once field i has its value
AfterField(i) ==
    IF i < Len(NUMERIC_FIELDS)
    THEN pc' = "call" /\ field' = i + 1
    ELSE pc' = "returned" /\ field' = field

\* one entry at the prompt of the current numeric field; at pc = "call" the
\* call starts and attempts is set to 0 (line 65)
AskNumber ==
    /\ pc \in {"call", "loop"}
    /\ LET fs == NUMERIC_FIELDS[field]
           count == IF pc = "call" THEN 0 ELSE attempts
       IN  \E entry \in NumericEntries(fs) :
             LET r == valid_input_step(fs, count, entry)
             IN  /\ attempts' = r.attempts
                 /\ (r.next = "return" /\ r.value # Num(fs.default))
                        => Typed < MaxTyped
                 /\ IF r.next = "return"
                    THEN /\ params' = [params EXCEPT ![fs.name] = r.value]
                         /\ AfterField(field)
                    ELSE IF r.next = "again"
                    THEN pc' = "loop" /\ UNCHANGED << params, field >>
                    ELSE pc' = "except" /\ UNCHANGED << params, field >>
    /\ ResultsUnchanged

\* main() runs the pass and, on "y", calls get_user_input again
AskAgain ==
    /\ pc = "returned"
    /\ pc' = "location"
    /\ params' = NoRecord
    /\ UNCHANGED << field, attempts >>
    /\ ResultsUnchanged

InitInput ==
    /\ pc = "location"
    /\ params = NoRecord
    /\ NoResults
    /\ steel_sections = STEEL_SECTIONS
    /\ field = 1
    /\ attempts = 0

NextInput == AskLocation \/ AskRoofType \/ AskNumber \/ AskAgain

\* the program takes its next step whenever the user has typed an entry
SpecInput == InitInput /\ [][NextInput]_vars /\ WF_vars(NextInput)

---------------------------------------------------------------------------
(* Properties of the input acquisition *)

\* get_user_input is at the prompt of numeric field i
Prompting(i) == pc \in {"call", "loop"} /\ field = i

LastField == IF pc = "returned" THEN Len(NUMERIC_FIELDS) ELSE field - 1

C10_ValidRecord ==
    pc = "returned" =>
        /\ params.location.k = "str"
        /\ params.location.v \in DOMAIN CITY_LOAD_DATA
        /\ params.roof_type.k = "str"
        /\ params.roof_type.v \in DOMAIN WIND_SHAPE_COEFF
        /\ \A i \in 1..Len(NUMERIC_FIELDS) :
              LET fs == NUMERIC_FIELDS[i]
                  x  == params[fs.name]
              IN  /\ IsNum(x)
                  /\ \/ x.v = fs.default
                     \/ fs.min10 <= x.v * fs.unit10 /\ x.v * fs.unit10 <= fs.max10
        /\ 0 <= params.tilt_angle.v /\ params.tilt_angle.v <= 180
        /\ \A f \in {"mounting_height", "pv_length", "pv_width", "pv_weight",
                     "column_spacing", "span_length"} : params[f].v > 0
        /\ params.pv_per_row.v >= 1 /\ params.num_rows.v >= 1
        /\ ColumnsOf(params) >= 1

============================================================================
